---- MODULE Spec2Model ----
(***************************************************************************)
(* Batch inference orchestrator of medical_analysis.py: main() submits one *)
(* process_case per dataset row to a ThreadPoolExecutor, collects the      *)
(* futures with as_completed, pauses after every 20th collected outcome    *)
(* and sorts the outcomes by index.  process_case wraps the tenacity       *)
(* decorated api_call_with_retry in a loop of three outer attempts.        *)
(* main() then saves the outcomes and logs the analysis report.  SpecFn    *)
(* applies the functions of the program to bounded inputs: the two prompt  *)
(* renderers, the wait of the retry and check_excel_fields.                *)
(***************************************************************************)
EXTENDS Integers, Sequences, FiniteSets, TLC

\* ---- bounds of the model ------------------------------------------------
\* largest number of rows in a small dataset
MaxCases == 3
\* largest worker pool
MaxWorkers == 2
\* most rows of a dataset that lacks a column
MaxLackingRows == 1
\* most futures that finish before main reaches as_completed
MaxEarly == 2
\* most endpoint calls that raise in a run over several rows (a run over one
\* row is unrestricted)
MaxFaults == 3
\* the same for a run long enough to reach the cooldown
MaxBigFaults == 0

\* most placeholders of a template, most names of a list of required fields
MaxFields == 2
\* most characters by which a cell exceeds a length limit
MaxExcess == 1
\* largest attempt number for which the wait of the retry is computed
MaxAttemptNumber == 8

\* ---- program constants --------------------------------------------------
\* range(3), medical_analysis.py:113
OUTER_ATTEMPTS == 3
\* stop_after_attempt(5), medical_analysis.py:87
STOP_AFTER_ATTEMPT == 5
\* len(results) % 20, medical_analysis.py:177
COOLDOWN_EVERY == 20
\* "max_workers": 1, medical_analysis.py:156
CONFIG_MAX_WORKERS == 1

\* wait_exponential(multiplier=1, min=2, max=60), medical_analysis.py:88
WAIT_MULTIPLIER == 1
WAIT_MIN == 2
WAIT_MAX == 60

\* datasets long enough for the cooldown to be taken
BigRuns == {COOLDOWN_EVERY, COOLDOWN_EVERY + 1}

\* the row fields process_case reads with row[...] (lines 129-131), in order
IdentityCols == <<"SEX", "AGE", "DAY">>
AllCols == {"SEX", "AGE", "DAY"}

\* the datasets of the model: all three columns, or one of them lacking
Datasets == {AllCols} \cup {AllCols \ {c} : c \in AllCols}

\* the four structural markers tested on lines 122 and 124
OpenTags == {"<decision>", "<recommendation>"}
CloseTags == {"</decision>", "</recommendation>"}
Markers == OpenTags \cup CloseTags

VARIABLES
    ncases,       \* len(df)
    max_workers,  \* config["max_workers"]
    columns,      \* which of SEX, AGE, DAY are columns of df
    faults,       \* endpoint calls that may still deviate from a well-formed response
    mainpc,       \* position of main()
    futures,      \* the list futures of main()
    queue,        \* work queue of the ThreadPoolExecutor
    cur,          \* per worker thread: the case it runs, 0 when idle
    fstate,       \* per case: state of its future
    fresult,      \* per case: result of its future
    starts,       \* per case: number of times process_case was entered
    attempt,      \* per case: loop variable of range(3)
    tries,        \* per case: endpoint calls made by the current api_call_with_retry
    error_logs,   \* per case: the local list error_logs
    ncalls,       \* per case: endpoint calls made so far
    exec_log,     \* per case: how each finished api_call_with_retry ended
    lastRaised,   \* per case: exception raised by the latest endpoint call
    early,        \* as_completed: futures found finished at its start
    doneq,        \* as_completed: futures finished since, in completion order
    results,      \* the list results of main()
    cooldowns,    \* number of time.sleep(rate_limit_delay) begun
    result_df,    \* result_df after sort_values
    slept15,      \* per case: the outer attempts followed by time.sleep(15)
    xlsx_file,    \* rows of the spreadsheet written to output_path
    csv_file,     \* rows of the CSV backup file
    report,       \* the figures of the analysis report
    fnIn,         \* input of the function under check
    fnOut         \* its result

vars == <<ncases, max_workers, columns, faults, mainpc, futures, queue, cur,
          fstate, fresult, starts, attempt, tries, error_logs, ncalls,
          exec_log, lastRaised, early, doneq, results, cooldowns, result_df,
          slept15, xlsx_file, csv_file, report, fnIn, fnOut>>

Cases == 1..ncases
Workers == 1..max_workers

NoResult == [status |-> "none"]
\* a file that was not written, the report before it is made, no function call
NoFile == [written |-> FALSE, rows |-> <<>>, error |-> "none"]
NoReport == [made |-> FALSE]
NoCall == [fn |-> "none"]
NoError == [etype |-> "none", rate |-> FALSE]

\* ---- exceptions ----------------------------------------------------------
\* An exception is its type and whether "rate limit" occurs in str(e).lower().
RetryableTypes == {"APIError", "APIConnectionError"}

\* retry_if_exception_type((APIError, APIConnectionError))
IsRetryable(e) == e.etype \in RetryableTypes

\* what tenacity raises when stop_after_attempt(5) is reached and reraise is
\* not set: RetryError, whose str is "RetryError[<Future ... raised X>]"
RetryError == [etype |-> "RetryError", rate |-> FALSE]

\* raise ValueError("Empty Response")
EmptyResponse == [etype |-> "ValueError", rate |-> FALSE]

\* None.strip()
NoneHasNoStrip == [etype |-> "AttributeError", rate |-> FALSE]

\* row[c] for a column the dataset lacks
KeyError == [etype |-> "KeyError", rate |-> FALSE]

\* what api_call_with_retry raises after the endpoint raised e on call n
Surfaced(e, n) == IF IsRetryable(e) /\ n >= STOP_AFTER_ATTEMPT THEN RetryError ELSE e

\* how an api_call_with_retry that raises after e on call n has ended
ExecEnd(e, n) == IF Surfaced(e, n) = e THEN "raise" ELSE "exhausted"

\* a bug that stops one call late
CallsAgainOnceMore(e, n) == IsRetryable(e) /\ n <= STOP_AFTER_ATTEMPT

\* whether api_call_with_retry calls the endpoint again after e on call n
CallsAgain(e, n) == IsRetryable(e) /\ n < STOP_AFTER_ATTEMPT

\* ---- the endpoint --------------------------------------------------------
\* exceptions the endpoint may raise
EndpointErrors == [etype : RetryableTypes \cup {"Other"}, rate : BOOLEAN]

\* message.content of a response: None, whitespace only, or text holding a
\* set of markers
Contents ==
    {[present |-> FALSE, blank |-> TRUE, tags |-> {}],
     [present |-> TRUE, blank |-> TRUE, tags |-> {}]}
    \cup [present : {TRUE}, blank : {FALSE}, tags : SUBSET Markers]

WellFormed(c) == c.present /\ ~c.blank /\ c.tags = Markers

\* A run over one row meets every behaviour of the endpoint; a run over
\* several rows meets a well-formed response or an exception of a type that
\* is not retried.
ErrorsOf(n) == IF n = 1 THEN EndpointErrors ELSE {[etype |-> "Other", rate |-> FALSE]}
ContentsOf(n) == IF n = 1 THEN Contents ELSE {c \in Contents : WellFormed(c)}

\* ---- process_case --------------------------------------------------------
\* f"Attempt {attempt + 1}: {type(e).__name__} - {str(e)}"
Entry(a, e) == [attempt |-> a + 1, etype |-> e.etype, rate |-> e.rate]

\* lines 121-125
FormatWarning(tags) ==
    IF ~(OpenTags \subseteq tags) THEN "(Format Warning: Missing Required Tags)"
    ELSE IF ~(CloseTags \subseteq tags) THEN "(Format Warning: Unclosed Tags)"
    ELSE ""

\* f"{cleaned_content}{format_warning}"
ModelOutput(c) == [blank |-> c.blank, tags |-> c.tags, warning |-> FormatWarning(c.tags)]

NonEmptyText(t) == ~t.blank \/ t.warning # ""

\* the row of case i: a value for every column of the dataset
Row(i) == [c \in columns |-> <<c, i>>]

\* the first of row['SEX'], row['AGE'], row['DAY'] that raises
MissingCols == {k \in 1..Len(IdentityCols) : IdentityCols[k] \notin columns}

\* lines 127-135
SuccessOutcome(i, c, a) ==
    [index |-> i - 1,
     gender |-> Row(i)["SEX"],
     age |-> Row(i)["AGE"],
     surgery_date |-> Row(i)["DAY"],
     model_output |-> ModelOutput(c),
     status |-> "success",
     attempt_count |-> a + 1]

\* a bug that marks the outcome of an exhausted case as a success
FailedOutcomeAsSuccess(i, logs) ==
    [index |-> i - 1,
     status |-> "success",
     error_log |-> IF logs # <<>> THEN <<logs[Len(logs)]>> ELSE <<"Unknown Error">>]

\* a bug that reports the first entry of error_logs instead of the last
FailedOutcomeFirst(i, logs) ==
    [index |-> i - 1,
     status |-> "failed",
     error_log |-> IF logs # <<>> THEN <<logs[1]>> ELSE <<"Unknown Error">>]

\* lines 145-149; error_log carries error_logs[-1] only
FailedOutcome(i, logs) ==
    [index |-> i - 1,
     status |-> "failed",
     error_log |-> IF logs # <<>> THEN <<logs[Len(logs)]>> ELSE <<"Unknown Error">>]

\* what the body of the try block does with a returned response (116-136):
\* the exception it raises, or NoError when it reaches the return
TryBody(c) ==
    IF ~c.present THEN NoneHasNoStrip
    ELSE IF c.blank THEN EmptyResponse
    ELSE IF MissingCols # {} THEN KeyError
    ELSE NoError

\* a bug that catches only the errors of the request
CatchesRequestErrors(e) == e.etype \notin {"KeyError", "AttributeError"}

\* except Exception (line 138): every exception of the model is an Exception
Catches(e) == e.etype \in {"RetryError", "APIError", "APIConnectionError", "Other",
                           "ValueError", "AttributeError", "KeyError"}

\* a bug that gives up after an exception of a type that is not retried
LoopEndsOnPermanent(a, e) == a + 1 >= OUTER_ATTEMPTS \/ e.etype = "Other"

\* whether the loop of line 113 is over after attempt a raised e: the except
\* clause continues whatever e is
LoopEnds(a, e) == a + 1 >= OUTER_ATTEMPTS

\* if "rate limit" in str(e).lower(): time.sleep(15) (lines 140-141)
Sleeps(e) == e.rate

\* the result of a future whose call raised e
RaisedOutcome(e) == [status |-> "raised", exc |-> e]

\* ---- sort_values("index") ------------------------------------------------
RECURSIVE Insert(_, _)
Insert(o, s) ==
    IF s = <<>> THEN <<o>>
    ELSE IF o.index <= Head(s).index THEN <<o>> \o s
    ELSE <<Head(s)>> \o Insert(o, Tail(s))

RECURSIVE InsertAll(_)
InsertAll(s) == IF s = <<>> THEN <<>> ELSE Insert(Head(s), InsertAll(Tail(s)))

\* a bug that drops the sort: the outcomes stay in collection order
SortValuesDropped(s) == s

\* pd.DataFrame(results).sort_values("index"), line 180
SortValues(s) == InsertAll(s)

\* ---- initial state -------------------------------------------------------
Min(a, b) == IF a <= b THEN a ELSE b

\* The runs of the model: a dataset of 1..MaxCases rows or one long enough to
\* reach the cooldown; a pool no larger than the dataset (the pool starts at
\* most one thread per submission), the configured pool for a long run; a
\* dataset that lacks a column has at most MaxLackingRows rows.
Init ==
    /\ ncases \in (1..MaxCases) \cup BigRuns
    /\ max_workers \in (IF ncases \in BigRuns THEN {CONFIG_MAX_WORKERS}
                        ELSE 1..Min(ncases, MaxWorkers))
    /\ columns \in (IF ncases <= MaxLackingRows THEN Datasets ELSE {AllCols})
    /\ faults = (IF ncases = 1 THEN OUTER_ATTEMPTS * STOP_AFTER_ATTEMPT
                 ELSE IF ncases \in BigRuns THEN MaxBigFaults ELSE MaxFaults)
    /\ mainpc = "submit"
    /\ futures = <<>>
    /\ queue = <<>>
    /\ cur = [w \in Workers |-> 0]
    /\ fstate = [i \in Cases |-> "new"]
    /\ fresult = [i \in Cases |-> NoResult]
    /\ starts = [i \in Cases |-> 0]
    /\ attempt = [i \in Cases |-> 0]
    /\ tries = [i \in Cases |-> 0]
    /\ error_logs = [i \in Cases |-> <<>>]
    /\ ncalls = [i \in Cases |-> 0]
    /\ exec_log = [i \in Cases |-> <<>>]
    /\ lastRaised = [i \in Cases |-> NoError]
    /\ early = {}
    /\ doneq = <<>>
    /\ results = <<>>
    /\ cooldowns = 0
    /\ result_df = <<>>
    /\ slept15 = [i \in Cases |-> <<>>]
    /\ xlsx_file = NoFile
    /\ csv_file = NoFile
    /\ report = NoReport
    /\ fnIn = NoCall
    /\ fnOut = NoCall

configVars == <<ncases, max_workers, columns>>
fnVars == <<fnIn, fnOut>>
outVars == <<xlsx_file, csv_file, report>>
mainVars == <<mainpc, futures, early, results, cooldowns, result_df, outVars>>
caseVars == <<attempt, tries, error_logs, ncalls, exec_log, lastRaised, slept15>>

Finished == {i \in Cases : fstate[i] = "finished"}

\* a bug that submits every row twice
SubmitTwice ==
    /\ mainpc = "submit"
    /\ LET i == Len(futures) + 1 IN
        /\ futures' = Append(futures, i)
        /\ queue' = Append(Append(queue, i), i)
        /\ fstate' = [fstate EXCEPT ![i] = "pending"]
        /\ mainpc' = IF i = ncases THEN "as_completed" ELSE "submit"
    /\ UNCHANGED <<configVars, fnVars, faults, cur, fresult, starts, caseVars, early,
                   doneq, results, cooldowns, result_df, outVars>>

\* ---- main(): submission (lines 169-171) ----------------------------------
Submit ==
    /\ mainpc = "submit"
    /\ LET i == Len(futures) + 1 IN
        /\ futures' = Append(futures, i)
        /\ queue' = Append(queue, i)
        /\ fstate' = [fstate EXCEPT ![i] = "pending"]
        /\ mainpc' = IF i = ncases THEN "as_completed" ELSE "submit"
    /\ UNCHANGED <<configVars, fnVars, faults, cur, fresult, starts, caseVars, early,
                   doneq, results, cooldowns, result_df, outVars>>

\* ---- worker threads ------------------------------------------------------
\* a worker thread takes the next work item and enters process_case; the
\* pool starts a thread per submission until it has max_workers of them
TakeCase(w) ==
    /\ w <= Len(futures)
    /\ cur[w] = 0
    /\ queue # <<>>
    /\ LET i == Head(queue) IN
        /\ queue' = Tail(queue)
        /\ cur' = [cur EXCEPT ![w] = i]
        /\ fstate' = [fstate EXCEPT ![i] = "running"]
        /\ starts' = [starts EXCEPT ![i] = @ + 1]
    /\ UNCHANGED <<configVars, fnVars, faults, mainVars, fresult, caseVars, doneq>>

\* process_case returns o (or raises): the future finishes and the thread
\* becomes idle
Return(i, w, o) ==
    /\ (mainpc \in {"submit", "as_completed"}) => Cardinality(Finished) < MaxEarly
    /\ fstate' = [fstate EXCEPT ![i] = "finished"]
    /\ fresult' = [fresult EXCEPT ![i] = o]
    /\ cur' = [cur EXCEPT ![w] = 0]
    /\ doneq' = IF mainpc \in {"submit", "as_completed"} THEN doneq ELSE Append(doneq, i)

\* the except clause (138-142) for exception e, the api_call_with_retry of
\* this attempt having ended as res
Except(i, w, e, res) ==
    LET logs == Append(error_logs[i], Entry(attempt[i], e)) IN
    /\ exec_log' = [exec_log EXCEPT ![i] = Append(@, res)]
    /\ tries' = [tries EXCEPT ![i] = 0]
    /\ IF ~Catches(e)
       THEN /\ UNCHANGED <<attempt, error_logs, slept15>>
            /\ Return(i, w, RaisedOutcome(e))
       ELSE /\ error_logs' = [error_logs EXCEPT ![i] = logs]
            /\ slept15' = [slept15 EXCEPT ![i] =
                              IF Sleeps(e) THEN Append(@, attempt[i] + 1) ELSE @]
            /\ IF ~LoopEnds(attempt[i], e)
               THEN /\ attempt' = [attempt EXCEPT ![i] = @ + 1]
                    /\ UNCHANGED <<fstate, fresult, cur, doneq>>
               ELSE /\ attempt' = attempt
                    /\ Return(i, w, FailedOutcome(i, logs))

\* the endpoint raises an exception of a retried type
CreateRaisesRetryable(w) ==
    /\ cur[w] # 0
    /\ faults > 0
    /\ LET i == cur[w]
           n == tries[i] + 1 IN
       \E e \in {x \in ErrorsOf(ncases) : IsRetryable(x)} :
        /\ lastRaised' = [lastRaised EXCEPT ![i] = e]
        /\ ncalls' = [ncalls EXCEPT ![i] = @ + 1]
        /\ faults' = faults - 1
        /\ IF CallsAgain(e, n)
           THEN /\ tries' = [tries EXCEPT ![i] = n]
                /\ UNCHANGED <<attempt, error_logs, exec_log, slept15, fstate,
                               fresult, cur, doneq>>
           ELSE Except(i, w, Surfaced(e, n), ExecEnd(e, n))
    /\ UNCHANGED <<configVars, fnVars, mainVars, queue, starts>>

\* the endpoint raises any other exception
CreateRaisesOther(w) ==
    /\ cur[w] # 0
    /\ faults > 0
    /\ LET i == cur[w]
           n == tries[i] + 1 IN
       \E e \in {x \in ErrorsOf(ncases) : ~IsRetryable(x)} :
        /\ lastRaised' = [lastRaised EXCEPT ![i] = e]
        /\ ncalls' = [ncalls EXCEPT ![i] = @ + 1]
        /\ faults' = faults - 1
        /\ IF CallsAgain(e, n)
           THEN /\ tries' = [tries EXCEPT ![i] = n]
                /\ UNCHANGED <<attempt, error_logs, exec_log, slept15, fstate,
                               fresult, cur, doneq>>
           ELSE Except(i, w, Surfaced(e, n), ExecEnd(e, n))
    /\ UNCHANGED <<configVars, fnVars, mainVars, queue, starts>>

\* the endpoint returns a response
CreateReturns(w) ==
    /\ cur[w] # 0
    /\ LET i == cur[w]
           n == tries[i] + 1 IN
       \E c \in ContentsOf(ncases) :
        /\ WellFormed(c) \/ faults > 0
        /\ faults' = IF WellFormed(c) THEN faults ELSE faults - 1
        /\ lastRaised' = [lastRaised EXCEPT ![i] = NoError]
        /\ ncalls' = [ncalls EXCEPT ![i] = @ + 1]
        /\ LET res == IF ~c.present THEN "None" ELSE IF c.blank THEN "blank" ELSE "text" IN
           IF TryBody(c) # NoError
           THEN Except(i, w, TryBody(c), res)
           ELSE /\ exec_log' = [exec_log EXCEPT ![i] = Append(@, res)]
                /\ tries' = [tries EXCEPT ![i] = 0]
                /\ UNCHANGED <<attempt, error_logs, slept15>>
                /\ Return(i, w, SuccessOutcome(i, c, attempt[i]))
    /\ UNCHANGED <<configVars, fnVars, mainVars, queue, starts>>

\* ---- main(): collection (lines 173-178) ----------------------------------
\* as_completed starts: the futures already finished are yielded first
AsCompleted ==
    /\ mainpc = "as_completed"
    /\ early' = Finished
    /\ mainpc' = "collect"
    /\ UNCHANGED <<configVars, fnVars, faults, futures, queue, cur, fstate, fresult,
                   starts, caseVars, doneq, results, cooldowns, result_df, outVars>>

\* where main goes once len(results) = k
AfterCollect(k) == IF k = ncases THEN "sort" ELSE "collect"

\* a variant that pauses only while outcomes remain to be collected
CooldownDueBeforeMore(k) == k % COOLDOWN_EVERY = 0 /\ k < ncases

\* if len(results) % 20 == 0 (line 177), for len(results) = k
CooldownDue(k) == k % COOLDOWN_EVERY = 0

\* one iteration of the loop over as_completed with future f
CollectFuture(f) ==
    /\ IF fresult[f].status = "raised"
       THEN \* future.result() raises what process_case raised
            /\ mainpc' = "crashed"
            /\ UNCHANGED <<results, cooldowns>>
       ELSE /\ results' = Append(results, fresult[f])
            /\ IF CooldownDue(Len(results'))
               THEN /\ mainpc' = "cooldown"
                    /\ cooldowns' = cooldowns + 1
               ELSE /\ mainpc' = AfterCollect(Len(results'))
                    /\ cooldowns' = cooldowns
    /\ UNCHANGED <<configVars, fnVars, faults, futures, queue, cur, fstate, fresult,
                   starts, caseVars, result_df, outVars>>

\* a future that was finished when as_completed started, in set order
CollectEarly ==
    /\ mainpc = "collect"
    /\ \E f \in early :
        /\ early' = early \ {f}
        /\ doneq' = doneq
        /\ CollectFuture(f)

\* the next future in completion order
CollectNext ==
    /\ mainpc = "collect"
    /\ early = {}
    /\ doneq # <<>>
    /\ doneq' = Tail(doneq)
    /\ early' = early
    /\ CollectFuture(Head(doneq))

\* time.sleep(config["rate_limit_delay"]) returns
CooldownEnd ==
    /\ mainpc = "cooldown"
    /\ mainpc' = AfterCollect(Len(results))
    /\ UNCHANGED <<configVars, fnVars, faults, futures, queue, cur, fstate, fresult,
                   starts, caseVars, early, doneq, results, cooldowns, result_df, outVars>>

\* line 180
SortResults ==
    /\ mainpc = "sort"
    /\ result_df' = SortValues(results)
    /\ mainpc' = "save"
    /\ UNCHANGED <<configVars, fnVars, faults, futures, queue, cur, fstate, fresult,
                   starts, caseVars, early, doneq, results, cooldowns, outVars>>

\* ---- main(): saving (lines 182-209) --------------------------------------
\* what the write of the spreadsheet may raise: PermissionError is handled
\* by the clause of line 198, every other exception by that of line 205.
\* The runs over 2..MaxCases rows meet write errors; the run over one row,
\* which meets every behaviour of the endpoint, and the long runs do not.
WriteErrors == IF ncases \in 2..MaxCases THEN {"PermissionError", "Exception"} ELSE {}

\* a file holding the rows of a data frame
Written(rows) == [written |-> TRUE, rows |-> rows, error |-> "none"]

\* a write that raised err
WriteRaised(err) == [written |-> FALSE, rows |-> <<>>, error |-> err]

\* The try block writes result_df to the spreadsheet; when that raises, the
\* except clause that handles it writes result_df.to_csv(csv_path), and what
\* to_csv raises there leaves main.
Save ==
    /\ mainpc = "save"
    /\ \/ /\ xlsx_file' = Written(result_df)
          /\ csv_file' = csv_file
          /\ mainpc' = "report"
       \/ \E err \in WriteErrors :
            /\ xlsx_file' = WriteRaised(err)
            /\ \/ /\ csv_file' = Written(result_df)
                  /\ mainpc' = "report"
               \/ /\ csv_file' = WriteRaised("OSError")
                  /\ mainpc' = "save_raised"
    /\ UNCHANGED <<configVars, fnVars, faults, futures, queue, cur, fstate, fresult,
                   starts, caseVars, early, doneq, results, cooldowns, result_df,
                   report>>

\* ---- main(): the analysis report (lines 211-218) -------------------------
\* the rows of a data frame that have a value in column f (the others hold NaN)
RowsWith(df, f) == {k \in DOMAIN df : f \in DOMAIN df[k]}

RECURSIVE SumAttempts(_, _)
SumAttempts(df, ks) ==
    IF ks = {} THEN 0
    ELSE LET k == CHOOSE x \in ks : TRUE IN
         df[k].attempt_count + SumAttempts(df, ks \ {k})

\* result_df[f] raises KeyError when no row of the frame has the key f
HasColumn(df, f) == RowsWith(df, f) # {}

\* the figures of the report; mean() skips the rows whose attempt_count is
\* NaN, so the mean is attempt_sum / attempt_n
ReportOf(df) ==
    [made |-> TRUE,
     success_count |-> Cardinality({k \in DOMAIN df : df[k].status = "success"}),
     total |-> ncases,
     format_warnings |-> Cardinality({k \in RowsWith(df, "model_output") :
                                         df[k].model_output.warning # ""}),
     attempt_sum |-> SumAttempts(df, RowsWith(df, "attempt_count")),
     attempt_n |-> Cardinality(RowsWith(df, "attempt_count"))]

Report ==
    /\ mainpc = "report"
    /\ IF HasColumn(result_df, "model_output") /\ HasColumn(result_df, "attempt_count")
       THEN /\ report' = ReportOf(result_df)
            /\ mainpc' = "done"
       ELSE /\ report' = report
            /\ mainpc' = "report_raised"
    /\ UNCHANGED <<configVars, fnVars, faults, futures, queue, cur, fstate, fresult,
                   starts, caseVars, early, doneq, results, cooldowns, result_df,
                   xlsx_file, csv_file>>

Next ==
    \/ Submit
    \/ \E w \in Workers : TakeCase(w)
    \/ \E w \in Workers : CreateRaisesRetryable(w)
    \/ \E w \in Workers : CreateRaisesOther(w)
    \/ \E w \in Workers : CreateReturns(w)
    \/ AsCompleted
    \/ CollectEarly
    \/ CollectNext
    \/ CooldownEnd
    \/ SortResults
    \/ Save
    \/ Report

Spec == Init /\ [][Next]_vars

TypeOK ==
    /\ mainpc \in {"submit", "as_completed", "collect", "cooldown", "sort", "save",
                   "report", "done", "crashed", "save_raised", "report_raised"}
    /\ \A i \in Cases : attempt[i] \in 0..(OUTER_ATTEMPTS - 1)

\* ---- the functions of the program -----------------------------------------
\* A text is the content of a cell, or a sentinel, cut to its first len
\* characters.
Text(of, len) == [of |-> of, len |-> len]

\* value[:m]
Slice(v, m) == Text(v.of, Min(v.len, m))

\* row.get(field, default)
RowGet(row, field, default) == IF field \in DOMAIN row THEN row[field] ELSE default

\* the set of the elements of a sequence
Range(s) == {s[k] : k \in DOMAIN s}

\* match_excel_to_prompts.py, fill_template: mappings (lines 63-67)
mappings == [GENDER |-> "SEX", ANGIOGRAPHY_RESULTS |-> "CAG", CORONARY_CTA |-> "CTA"]

\* the column a placeholder is read from (lines 72-74)
FieldOf(placeholder, row) ==
    IF placeholder \in DOMAIN mappings /\ mappings[placeholder] \in DOMAIN row
    THEN mappings[placeholder]
    ELSE placeholder

\* the sentinel of line 77, two characters long
SentinelFill == Text("sentinel", 2)

\* a bug that cuts every long-text field at 2000 characters
max_lengthReportOnly(field) == 2000

\* max_length = 2000 if field in ['CAG', 'CTA'] else 1000 (line 80)
max_length(field) == IF field \in {"CAG", "CTA"} THEN 2000 ELSE 1000

\* the value that replaces a placeholder (lines 72-81)
FillValue(placeholder, row) ==
    LET field == FieldOf(placeholder, row)
        value == RowGet(row, field, SentinelFill)
    IN  IF field \in {"CAG", "CTA", "TTE", "ECG"}
        THEN Slice(value, max_length(field))
        ELSE value

\* fill_template(template, row): the template is the sequence of its
\* placeholders (analyze_template), the result the text put for each
fill_template(template, row) == [p \in Range(template) |-> FillValue(p, row)]

\* 'Unknown', the default of lines 105-111
SentinelUnknown == Text("Unknown", 7)

\* the placeholders of PROMPT_TEMPLATE and the columns process_case reads
\* them from (lines 105-111)
PromptColumn ==
    [p \in {"AGE", "GENDER", "CHIEF COMPLAINT", "PRESENT HISTORY", "PAST HISTORY",
            "DAY", "CORONARY_CTA"} |->
        CASE p = "AGE" -> "AGE"
          [] p = "GENDER" -> "SEX"
          [] p = "CHIEF COMPLAINT" -> "chief complaint"
          [] p = "PRESENT HISTORY" -> "present history"
          [] p = "PAST HISTORY" -> "past history"
          [] p = "DAY" -> "DAY"
          [] p = "CORONARY_CTA" -> "CTA"]

\* the rendering step of process_case (lines 104-111): only the CTA report
\* is cut, [:2000]
processed_prompt(row) ==
    [p \in DOMAIN PromptColumn |->
        IF p = "CORONARY_CTA"
        THEN Slice(RowGet(row, PromptColumn[p], SentinelUnknown), 2000)
        ELSE RowGet(row, PromptColumn[p], SentinelUnknown)]

\* ---- the wait between two calls of api_call_with_retry --------------------
Max(a, b) == IF a >= b THEN a ELSE b

\* a bug that leaves out the lower limit of the wait
wait_exponentialNoMin(attempt_number) ==
    Min(WAIT_MULTIPLIER * 2 ^ (attempt_number - 1), WAIT_MAX)

\* tenacity's wait_exponential as configured on line 88, for the wait after
\* the call number attempt_number has raised:
\*   exp = exp_base ** (attempt_number - 1); result = multiplier * exp
\*   max(max(0, min), min(result, max))
wait_exponential(attempt_number) ==
    Max(Max(0, WAIT_MIN), Min(WAIT_MULTIPLIER * 2 ^ (attempt_number - 1), WAIT_MAX))

\* ---- match_excel_to_prompts.py, check_excel_fields ------------------------
\* a variant that honours the mapped columns
IsMissingMapped(field, cols) ==
    /\ field \notin cols
    /\ ~(field \in DOMAIN mappings /\ mappings[field] \in cols)

\* whether the loop body appends field to missing_fields (lines 47-55)
IsMissing(field, cols) ==
    /\ field \notin cols /\ field # "GENDER" /\ field # "ANGIOGRAPHY_RESULTS"
       /\ field # "CORONARY_CTA"
    /\ ~(field = "GENDER" /\ "SEX" \in cols)
    /\ ~(field = "ANGIOGRAPHY_RESULTS" /\ "CAG" \in cols)
    /\ ~(field = "CORONARY_CTA" /\ "CTA" \in cols)

\* check_excel_fields(df, required_fields), df given by its columns
check_excel_fields(cols, required_fields) ==
    SelectSeq(required_fields, LAMBDA field : IsMissing(field, cols))

\* ---- the inputs of the functions -----------------------------------------
\* cell lengths at and beyond the two limits
Lengths == {1} \cup {l + d : l \in {1000, 2000}, d \in 0..MaxExcess} \cup {5000}

\* a row: some columns, every cell n characters long
RowOf(cols, n) == [c \in cols |-> Text(c, n)]

\* the sequences of 1..MaxFields names out of S
Fields(S) == UNION {[1..n -> S] : n \in 1..MaxFields}

FillColumns == {"CAG", "CTA", "TTE", "ECG", "CORONARY_CTA", "present history"}
FillPlaceholders == {"ANGIOGRAPHY_RESULTS", "CORONARY_CTA", "TTE", "ECG", "present history"}
PromptColumns == {"CTA", "chief complaint", "present history", "past history", "SEX"}

FillInputs ==
    [fn : {"fill_template"}, template : Fields(FillPlaceholders),
     row : {RowOf(cols, n) : cols \in SUBSET FillColumns, n \in Lengths}]

PromptInputs ==
    [fn : {"process_case"},
     row : {RowOf(cols, n) : cols \in SUBSET PromptColumns, n \in Lengths}]

WaitInputs == [fn : {"wait_exponential"}, attempt_number : 1..MaxAttemptNumber]

CheckColumns == {"SEX", "CAG", "CTA", "GENDER", "AGE"}
CheckFields == {"GENDER", "ANGIOGRAPHY_RESULTS", "CORONARY_CTA", "AGE", "TTE"}

CheckInputs ==
    [fn : {"check_excel_fields"}, columns : SUBSET CheckColumns,
     required_fields : Fields(CheckFields)]

FnInputs == FillInputs \cup PromptInputs \cup WaitInputs \cup CheckInputs

\* ---- the specification of the functions ---------------------------------
\* no run of main() is under way; one function is applied to one input
InitFn ==
    /\ ncases = 1
    /\ max_workers = CONFIG_MAX_WORKERS
    /\ columns = AllCols
    /\ faults = 0
    /\ mainpc = "submit"
    /\ futures = <<>>
    /\ queue = <<>>
    /\ cur = [w \in Workers |-> 0]
    /\ fstate = [i \in Cases |-> "new"]
    /\ fresult = [i \in Cases |-> NoResult]
    /\ starts = [i \in Cases |-> 0]
    /\ attempt = [i \in Cases |-> 0]
    /\ tries = [i \in Cases |-> 0]
    /\ error_logs = [i \in Cases |-> <<>>]
    /\ ncalls = [i \in Cases |-> 0]
    /\ exec_log = [i \in Cases |-> <<>>]
    /\ lastRaised = [i \in Cases |-> NoError]
    /\ early = {}
    /\ doneq = <<>>
    /\ results = <<>>
    /\ cooldowns = 0
    /\ result_df = <<>>
    /\ slept15 = [i \in Cases |-> <<>>]
    /\ xlsx_file = NoFile
    /\ csv_file = NoFile
    /\ report = NoReport
    /\ fnIn \in FnInputs
    /\ fnOut = NoCall

runVars == <<configVars, faults, mainVars, queue, cur, fstate, fresult, starts,
             caseVars, doneq>>

ApplyFillTemplate ==
    /\ fnIn.fn = "fill_template"
    /\ fnOut = NoCall
    /\ fnOut' = [fn |-> "fill_template", out |-> fill_template(fnIn.template, fnIn.row)]
    /\ UNCHANGED <<runVars, fnIn>>

ApplyRenderPrompt ==
    /\ fnIn.fn = "process_case"
    /\ fnOut = NoCall
    /\ fnOut' = [fn |-> "process_case", out |-> processed_prompt(fnIn.row)]
    /\ UNCHANGED <<runVars, fnIn>>

ApplyWaitExponential ==
    /\ fnIn.fn = "wait_exponential"
    /\ fnOut = NoCall
    /\ fnOut' = [fn |-> "wait_exponential", out |-> wait_exponential(fnIn.attempt_number)]
    /\ UNCHANGED <<runVars, fnIn>>

ApplyCheckExcelFields ==
    /\ fnIn.fn = "check_excel_fields"
    /\ fnOut = NoCall
    /\ fnOut' = [fn |-> "check_excel_fields",
                 out |-> check_excel_fields(fnIn.columns, fnIn.required_fields)]
    /\ UNCHANGED <<runVars, fnIn>>

NextFn ==
    \/ ApplyFillTemplate
    \/ ApplyRenderPrompt
    \/ ApplyWaitExponential
    \/ ApplyCheckExcelFields

SpecFn == InitFn /\ [][NextFn]_vars

\* ---- properties ----------------------------------------------------------
HasField(o, f) == f \in DOMAIN o

Done(i) == fstate[i] = "finished"

\* the api_call_with_retry of outer attempt k of case i returned non-blank
\* text and none before it did
FirstText(i, k) ==
    /\ k \in DOMAIN exec_log[i]
    /\ exec_log[i][k] = "text"
    /\ \A j \in 1..(k - 1) : exec_log[i][j] # "text"

\* C1: once main has aggregated, result_df holds exactly one outcome per
\* input row, and the outcomes are in ascending order of index, whatever the
\* pool size and the order in which the futures completed.
C1_Aggregated ==
    mainpc = "save" =>
        /\ Len(result_df) = ncases
        /\ \A k \in 1..ncases : result_df[k].index = k - 1

\* C1 witness: a finished run of a pool of two whose outcomes were collected
\* out of index order
C1_Witness ==
    /\ mainpc = "save"
    /\ max_workers > 1
    /\ ncases >= 3
    /\ \E k \in 1..(Len(results) - 1) : results[k].index > results[k + 1].index

\* C2: every outcome process_case returns is a success exactly when it has a
\* non-empty model_output and no error_log, and a failure exactly when it
\* has an error_log and no model_output; it is one of the two.
C2_StatusFields ==
    \A i \in Cases : Done(i) =>
        LET o == fresult[i] IN
        /\ o.status \in {"success", "failed"}
        /\ (o.status = "success") <=>
               (/\ HasField(o, "model_output")
                /\ ~HasField(o, "error_log")
                /\ NonEmptyText(o.model_output))
        /\ (o.status = "failed") <=>
               (HasField(o, "error_log") /\ ~HasField(o, "model_output"))

\* C2 witness: a run with a returned success and a returned failure
C2_Witness ==
    /\ \E i \in Cases : Done(i) /\ fresult[i].status = "success"
    /\ \E i \in Cases : Done(i) /\ fresult[i].status = "failed"

\* every api_call_with_retry of case i ended with the retries exhausted
AllExhausted(i) ==
    /\ Done(i)
    /\ \A k \in DOMAIN exec_log[i] : exec_log[i][k] = "exhausted"

\* C3 as stated: when every call of the request executor fails with transient
\* errors, process_case makes 3 outer attempts and returns a failure whose
\* error_log is the whole list of the 3 descriptions.
C3_AsStated ==
    \A i \in Cases : AllExhausted(i) =>
        /\ Len(exec_log[i]) = OUTER_ATTEMPTS
        /\ fresult[i].status = "failed"
        /\ Len(fresult[i].error_log) = OUTER_ATTEMPTS
        /\ fresult[i].error_log = error_logs[i]

\* C3 amended: in that case process_case makes 3 outer attempts, its local
\* list holds 3 descriptions, one per attempt in attempt order, and the
\* failure it returns carries as error_log the last of them only.
C3_LastEntryOnly ==
    \A i \in Cases : AllExhausted(i) =>
        /\ Len(exec_log[i]) = OUTER_ATTEMPTS
        /\ ncalls[i] = OUTER_ATTEMPTS * STOP_AFTER_ATTEMPT
        /\ fresult[i].status = "failed"
        /\ Len(error_logs[i]) = OUTER_ATTEMPTS
        /\ \A k \in 1..OUTER_ATTEMPTS : error_logs[i][k].attempt = k
        /\ fresult[i].error_log = <<error_logs[i][OUTER_ATTEMPTS]>>

\* C3 witness: a case returned after every endpoint call raised a retried error
C3_Witness == \E i \in Cases : AllExhausted(i) /\ lastRaised[i].etype = "APIError"

\* C4 as stated: when the first non-blank response arrives on outer attempt
\* k, process_case returns a success with attempt_count k and calls the
\* executor no more.
C4_AsStated ==
    \A i \in Cases : \A k \in 1..OUTER_ATTEMPTS : FirstText(i, k) =>
        /\ Done(i)
        /\ fresult[i].status = "success"
        /\ fresult[i].attempt_count = k
        /\ Len(exec_log[i]) = k
        /\ tries[i] = 0

\* C5 as stated: every non-blank response yields a success whose annotation
\* is none when all four markers are present, Unclosed Tags when both
\* opening markers are present and a closing one is missing, and Missing
\* Required Tags when neither opening marker is present.
C5_AsStated ==
    \A i \in Cases : \A k \in 1..OUTER_ATTEMPTS : FirstText(i, k) =>
        /\ Done(i)
        /\ fresult[i].status = "success"
        /\ LET t == fresult[i].model_output IN
            /\ t.warning \in {"", "(Format Warning: Unclosed Tags)",
                              "(Format Warning: Missing Required Tags)"}
            /\ (t.tags = Markers) => t.warning = ""
            /\ (OpenTags \subseteq t.tags /\ ~(CloseTags \subseteq t.tags))
                   => t.warning = "(Format Warning: Unclosed Tags)"
            /\ (OpenTags \cap t.tags = {})
                   => t.warning = "(Format Warning: Missing Required Tags)"

\* what case i must have returned, given only how its own calls ended
OwnOutcomeOnly(i) ==
    LET o == fresult[i]
        n == Len(exec_log[i]) IN
    /\ o.status = (IF exec_log[i][n] = "text" /\ columns = AllCols
                   THEN "success" ELSE "failed")
    /\ (o.status = "success") => o.attempt_count = n
    /\ (o.status = "failed") => n = OUTER_ATTEMPTS

\* the run of three rows in which rows 1 and 3 succeed at once and every
\* attempt of row 2 raises
Scenario123 ==
    /\ ncases = 3
    /\ columns = AllCols
    /\ exec_log[1] = <<"text">>
    /\ exec_log[3] = <<"text">>
    /\ exec_log[2] = <<"raise", "raise", "raise">>

\* C6: process_case never raises and main never stops on a case: every
\* finished case has an outcome that carries its own index and depends on its
\* own calls only, whatever the row lacks and whatever the executor does;
\* with rows 1 and 3 succeeding at once and row 2 always failing the sorted
\* result is success(1 attempt), failed, success(1 attempt).
C6_Contained ==
    /\ mainpc # "crashed"
    /\ \A i \in Cases : Done(i) =>
        /\ fresult[i].status \in {"success", "failed"}
        /\ fresult[i].index = i - 1
        /\ OwnOutcomeOnly(i)
    /\ (mainpc = "save" /\ Scenario123) =>
        /\ result_df[1].status = "success" /\ result_df[1].attempt_count = 1
        /\ result_df[2].status = "failed"
        /\ result_df[3].status = "success" /\ result_df[3].attempt_count = 1
        /\ \A k \in 1..3 : result_df[k].index = k - 1

\* C6 witness: that run, finished, with the failure of row 2 collected last
C6_Witness ==
    /\ mainpc = "save"
    /\ Scenario123
    /\ results[3].index = 1

\* C6 witness of the rows lacking a field: a case returned after a non-blank
\* response could not be turned into an outcome
C6_WitnessMissingField ==
    \E i \in Cases : Done(i) /\ columns # AllCols /\ "text" \in {exec_log[i][k] : k \in DOMAIN exec_log[i]}

\* C7 as stated: one api_call_with_retry calls the endpoint at most 5 times,
\* a non-transient error is surfaced as it is after its single call, and when
\* all 5 calls raise transient errors the error surfaced to process_case is
\* the last of those errors itself.
C7_AsStated ==
    \A i \in Cases :
        /\ tries[i] < STOP_AFTER_ATTEMPT
        /\ \A k \in DOMAIN exec_log[i] :
            /\ (exec_log[i][k] = "raise") => error_logs[i][k].etype = "Other"
            /\ (exec_log[i][k] = "exhausted") => error_logs[i][k].etype \in RetryableTypes
        /\ (tries[i] = 0 /\ exec_log[i] # <<>>
              /\ exec_log[i][Len(exec_log[i])] \in {"raise", "exhausted"})
            => error_logs[i][Len(exec_log[i])]
                   = Entry(Len(exec_log[i]) - 1, lastRaised[i])

\* C8 as stated: once the executor has raised a permanent error on an outer
\* attempt, no further executor call is made for the case, and the outcome
\* process_case returns is a failure.
C8_AsStated ==
    \A i \in Cases : \A k \in DOMAIN exec_log[i] :
        (exec_log[i][k] = "raise") =>
            /\ Len(exec_log[i]) = k
            /\ tries[i] = 0
            /\ Done(i) => fresult[i].status = "failed"

\* C8 amended: a permanent error is not retried by api_call_with_retry, but
\* process_case treats it as any other exception: it records it under its
\* attempt number and goes on to the next outer attempt; the case is failed
\* only when the third attempt has raised too.
C8_OuterLoopContinues ==
    \A i \in Cases : \A k \in DOMAIN exec_log[i] :
        (exec_log[i][k] = "raise") =>
            /\ error_logs[i][k] = [attempt |-> k, etype |-> "Other",
                                   rate |-> error_logs[i][k].rate]
            /\ (k = Len(exec_log[i]) /\ tries[i] = 0) => lastRaised[i].etype = "Other"
            /\ (k < OUTER_ATTEMPTS) =>
                   \/ ~Done(i) /\ attempt[i] >= k
                   \/ Done(i) /\ Len(exec_log[i]) > k
            /\ (Done(i) /\ fresult[i].status = "failed") =>
                   Len(error_logs[i]) = OUTER_ATTEMPTS

\* C8 witness: a success returned on an attempt that follows a permanent error
C8_Witness ==
    \E i \in Cases :
        /\ Done(i)
        /\ fresult[i].status = "success"
        /\ exec_log[i][1] = "raise"

\* C9 as stated: from the start to the end of a cooldown no worker starts a
\* case and no endpoint call is made.
C9_AsStated ==
    [][(mainpc = "cooldown") => (starts' = starts /\ ncalls' = ncalls)]_vars

\* the cases some worker thread is running
Running == {i \in Cases : fstate[i] = "running"}

\* C10: at most max_workers cases are being processed, every case is
\* submitted once and run once, by one worker at a time, and a worker leaves
\* a case only by finishing it and takes a case only when idle.
C10_Inv ==
    /\ Cardinality(Running) <= max_workers
    /\ \A i \in Cases : Cardinality({k \in DOMAIN futures : futures[k] = i}) <= 1
    /\ \A i \in Cases : Cardinality({k \in DOMAIN queue : queue[k] = i}) <= 1
    /\ (mainpc # "submit") => \A i \in Cases : \E k \in DOMAIN futures : futures[k] = i
    /\ \A i \in Cases : starts[i] <= 1
    /\ \A i \in Running : Cardinality({w \in Workers : cur[w] = i}) = 1
    /\ \A w \in Workers : cur[w] # 0 => cur[w] \in Running

C10_Step ==
    \A w \in Workers :
        (cur'[w] # cur[w]) =>
            \/ cur[w] = 0
            \/ cur'[w] = 0 /\ fstate'[cur[w]] = "finished"

C10_OneWorkerPerCase == []C10_Inv /\ [][C10_Step]_vars

\* C10 witness: both workers of a pool of two busy, one of them on the case
\* it took after finishing another
C10_Witness ==
    /\ max_workers = 2
    /\ Cardinality(Running) = 2
    /\ queue = <<>>
    /\ \E i \in Cases : Done(i)
\* C11: whenever the write of the spreadsheet has raised, permission denied
\* or any other error, the backup file is written with as many rows as
\* result_df has and main goes on to the report.
C11_AsStated ==
    (xlsx_file.error # "none") =>
        /\ csv_file.written
        /\ Len(csv_file.rows) = Len(result_df)
        /\ mainpc # "save_raised"

\* the columns the two renderers cut, and where
CutAt(field) ==
    IF field \in {"CAG", "CTA"} THEN 2000
    ELSE IF field \in {"TTE", "ECG"} THEN 1000
    ELSE 0

\* the text the cell of a column is rendered as under a limit (0: none)
Rendered(cell, limit) ==
    IF limit > 0 /\ cell.len > limit THEN Text(cell.of, limit) ELSE cell

\* the report fields and the narrative fields of a case record
ReportFields == {"CAG", "CTA"}
NarrativeFields == {"chief complaint", "present history", "past history"}

\* C12 as stated: both renderers render a report field longer than 2000
\* characters as its first 2000 characters and a narrative field longer
\* than 1000 characters as its first 1000, and a shorter one unchanged.
C12_AsStated ==
    /\ fnOut.fn = "fill_template" =>
          \A p \in DOMAIN fnOut.out :
              LET field == FieldOf(p, fnIn.row) IN
              /\ (field \in ReportFields /\ field \in DOMAIN fnIn.row) =>
                    fnOut.out[p] = Rendered(fnIn.row[field], 2000)
              /\ (field \in NarrativeFields /\ field \in DOMAIN fnIn.row) =>
                    fnOut.out[p] = Rendered(fnIn.row[field], 1000)
    /\ fnOut.fn = "process_case" =>
          \A p \in DOMAIN fnOut.out :
              LET field == PromptColumn[p] IN
              /\ (field \in ReportFields /\ field \in DOMAIN fnIn.row) =>
                    fnOut.out[p] = Rendered(fnIn.row[field], 2000)
              /\ (field \in NarrativeFields /\ field \in DOMAIN fnIn.row) =>
                    fnOut.out[p] = Rendered(fnIn.row[field], 1000)

\* C12, amended: fill_template renders the cell of column CAG or CTA as its
\* first 2000 characters and the cell of column TTE or ECG as its first
\* 1000; process_case renders the cell of column CTA as its first 2000
\* characters; a cell no longer than its limit and the cell of every other
\* column, the narrative fields included, is rendered in full, whatever its
\* length.
C12_ByColumn ==
    /\ fnOut.fn = "fill_template" =>
          \A p \in DOMAIN fnOut.out :
              LET field == FieldOf(p, fnIn.row) IN
              field \in DOMAIN fnIn.row =>
                  fnOut.out[p] = Rendered(fnIn.row[field], CutAt(field))
    /\ fnOut.fn = "process_case" =>
          \A p \in DOMAIN fnOut.out :
              LET field == PromptColumn[p] IN
              field \in DOMAIN fnIn.row =>
                  fnOut.out[p] = Rendered(fnIn.row[field],
                                          IF field = "CTA" THEN 2000 ELSE 0)

\* fill_template has cut a TTE cell of 5000 characters to 1000 and rendered
\* a narrative cell of 5000 characters in full
C12_Witness ==
    /\ fnOut.fn = "fill_template"
    /\ fnIn.template = <<"TTE", "present history">>
    /\ {"TTE", "present history"} \subseteq DOMAIN fnIn.row
    /\ fnIn.row["TTE"].len = 5000
    /\ fnOut.out["TTE"] = Text("TTE", 1000)
    /\ fnOut.out["present history"] = Text("present history", 5000)

\* the outer attempts of case i whose exception carried "rate limit"
RateLimited(i) == {k \in DOMAIN error_logs[i] : error_logs[i][k].rate}

\* C13 as stated: an outer attempt that raised is followed by the pause of
\* 15 seconds exactly when its message contains "rate limit", and a pause is
\* only taken when a next attempt follows it: none after the third attempt.
C13_AsStated ==
    \A i \in Cases :
        /\ \A k \in RateLimited(i) : k < OUTER_ATTEMPTS => k \in Range(slept15[i])
        /\ \A k \in Range(slept15[i]) : k \in RateLimited(i) /\ k < OUTER_ATTEMPTS

\* the outer attempts of case i whose response was empty or whitespace only
BlankAttempts(i) == {k \in DOMAIN exec_log[i] : exec_log[i][k] = "blank"}

\* C14 as stated: a blank response is never returned as Success; it is logged
\* for its attempt as a ValueError "Empty Response" and, unless it was the
\* third attempt, the loop goes on; three blank responses give Failed, and a
\* non-blank response within the three attempts still gives Success.
C14_AsStated ==
    \A i \in Cases :
        /\ \A k \in BlankAttempts(i) :
              /\ k \in DOMAIN error_logs[i]
              /\ error_logs[i][k] = Entry(k - 1, EmptyResponse)
              /\ (Done(i) /\ fresult[i].status = "success") => fresult[i].attempt_count # k
              /\ (Done(i) /\ k < OUTER_ATTEMPTS) => Len(exec_log[i]) > k
        /\ (Done(i) /\ BlankAttempts(i) = 1..OUTER_ATTEMPTS) => fresult[i].status = "failed"
        /\ \A k \in 1..OUTER_ATTEMPTS :
              (Done(i) /\ BlankAttempts(i) # {} /\ FirstText(i, k)) =>
                  /\ fresult[i].status = "success"
                  /\ fresult[i].attempt_count = k

\* C15 as stated: every outcome, Success or Failed, carries an attempt count
\* in 1..3, and the mean attempt count of the report is the sum of the
\* attempt counts of all N outcomes divided by N.
C15_AsStated ==
    /\ \A i \in Cases :
          (Done(i) /\ fresult[i].status \in {"success", "failed"}) =>
              /\ HasField(fresult[i], "attempt_count")
              /\ fresult[i].attempt_count \in 1..OUTER_ATTEMPTS
    /\ report.made => report.attempt_n = ncases

\* C17 as stated: once all outcomes are collected and saved, main completes
\* the report, whatever the mix of outcomes: the report never raises.
C17_AsStated == mainpc # "report_raised"

\* C16 as stated: the wait before the k-th retry, k = 1..4, is 2, 4, 8 and
\* 16 seconds, and no wait is below 2 or above 60 seconds.
C16_AsStated ==
    fnOut.fn = "wait_exponential" =>
        /\ fnOut.out \in 2..60
        /\ fnIn.attempt_number \in 1..4 => fnOut.out = 2 ^ fnIn.attempt_number

\* C16, amended: the wait before the k-th retry is 2 ^ (k - 1) seconds held
\* within 2..60: 2, 2, 4 and 8 seconds for k = 1..4; after the second retry
\* it doubles up to the limit of 60, and it is never below 2 seconds.
C16_Backoff ==
    fnOut.fn = "wait_exponential" =>
        LET k == fnIn.attempt_number IN
        /\ fnOut.out \in 2..60
        /\ k \in 1..4 => fnOut.out = <<2, 2, 4, 8>>[k]
        /\ k > 2 => fnOut.out = Min(2 * wait_exponential(k - 1), 60)

\* the wait before the second retry is computed, and is 2 seconds
C16_Witness ==
    /\ fnOut.fn = "wait_exponential"
    /\ fnIn.attempt_number = 2
    /\ fnOut.out = 2

\* C20: check_excel_fields never reports GENDER, ANGIOGRAPHY_RESULTS or
\* CORONARY_CTA as missing, whether or not the columns SEX, CAG, CTA exist;
\* it reports every other required field exactly when the data frame has no
\* column of that name, and reports nothing else.
C20_Missing ==
    fnOut.fn = "check_excel_fields" =>
        /\ Range(fnOut.out) \subseteq Range(fnIn.required_fields)
        /\ \A f \in Range(fnIn.required_fields) :
              IF f \in {"GENDER", "ANGIOGRAPHY_RESULTS", "CORONARY_CTA"}
              THEN f \notin Range(fnOut.out)
              ELSE f \in Range(fnOut.out) <=> f \notin fnIn.columns

\* GENDER is required of a data frame with neither a GENDER nor a SEX column
\* and is not reported, while the absent AGE is
C20_Witness ==
    /\ fnOut.fn = "check_excel_fields"
    /\ fnIn.required_fields = <<"GENDER", "AGE">>
    /\ fnIn.columns = {"CAG"}
    /\ fnOut.out = <<"AGE">>

\* the api_call_with_retry invocations of case i, begun or ended
Invocations(i) == Len(exec_log[i]) + (IF tries[i] > 0 THEN 1 ELSE 0)

C18_Inv ==
    \A i \in Cases :
        /\ Invocations(i) <= OUTER_ATTEMPTS
        /\ tries[i] < STOP_AFTER_ATTEMPT
        /\ ncalls[i] <= OUTER_ATTEMPTS * STOP_AFTER_ATTEMPT

C18_Step ==
    \A i \in Cases :
        /\ Done(i) => ncalls'[i] = ncalls[i]
        /\ <<attempt[i], tries[i], exec_log[i], error_logs[i], fresult[i]>>
             # <<attempt'[i], tries'[i], exec_log'[i], error_logs'[i], fresult'[i]>>
           => ncalls'[i] = ncalls[i] + 1

\* C18: process_case invokes api_call_with_retry at most 3 times and each
\* invocation calls the endpoint at most 5 times, so a case makes at most 15
\* endpoint calls whatever the endpoint does; every step of process_case is
\* one of these calls, so the case terminates; and once the outcome of a
\* case is returned no endpoint call is made for it.
C18_Bounded == []C18_Inv /\ [][C18_Step]_vars

\* a case has returned its outcome after 3 invocations and 15 endpoint calls
C18_Witness ==
    \E i \in Cases :
        /\ Done(i)
        /\ Len(exec_log[i]) = OUTER_ATTEMPTS
        /\ ncalls[i] = OUTER_ATTEMPTS * STOP_AFTER_ATTEMPT

C19_Inv ==
    /\ cooldowns = Len(results) \div COOLDOWN_EVERY
    /\ mainpc = "cooldown" =>
          /\ Len(results) > 0
          /\ Len(results) % COOLDOWN_EVERY = 0
          /\ \A w \in Workers : cur[w] # 0 => ENABLED CreateReturns(w)
    /\ mainpc \in {"sort", "save", "report", "done"} =>
          /\ Len(results) = ncases
          /\ cooldowns = ncases \div COOLDOWN_EVERY

C19_Step ==
    /\ Len(results') # Len(results) =>
          (mainpc' = "cooldown" <=> Len(results') % COOLDOWN_EVERY = 0)
    /\ mainpc = "cooldown" => (mainpc' = "cooldown" \/ results' = results)

\* C19: main takes one cooldown right after the 20th, 40th, ... outcome is
\* collected and at no other time, floor(N/20) in a run over N rows; the
\* pause holds the collecting thread only, a worker thread that runs a case
\* can still call the endpoint; and when N is a multiple of 20 the last
\* cooldown is taken after the last outcome, before the sort.
C19_Cooldowns == []C19_Inv /\ [][C19_Step]_vars

\* a run over 20 rows pauses after its last outcome, every case finished
C19_Witness ==
    /\ ncases = COOLDOWN_EVERY
    /\ mainpc = "cooldown"
    /\ Len(results) = ncases
    /\ \A w \in Workers : cur[w] = 0

\* a run over 21 rows pauses while a worker thread runs the last case
C19_WitnessWorking ==
    /\ ncases = COOLDOWN_EVERY + 1
    /\ mainpc = "cooldown"
    /\ \E w \in Workers : cur[w] # 0

====
